---- MODULE Spec2Model ----
(***************************************************************************)
(* The gltf2usdz conversion gateway: three HTTP servers of the repository. *)
(*   "local"  : src/unnamed/part_000  (multipart upload, files kept)       *)
(*   "cloud"  : src/unnamed/part_001  (bucket object in, signed URL out,   *)
(*              CORS, method check, cleanup in finally)                    *)
(*   "legacy" : src/server/index.ts   (bucket object in, no cleanup)       *)
(* Strings are sequences of one-character strings, so that endsWith,       *)
(* startsWith, path.parse and String.replace are computed as the code      *)
(* computes them.  A request identifier (crypto.randomUUID(), 36 symbols   *)
(* out of [0-9a-f-]) is one symbol that is neither "." nor "/".            *)
(***************************************************************************)
EXTENDS Integers, Sequences, FiniteSets, TLC

\* ------------------------------------------------------------- bounds
\* Number of requests a behaviour sends to the server.
MaxReq == 2

\* ------------------------------------------------------------ strings
Max(S) == CHOOSE x \in S : \A y \in S : y <= x

Min(S) == CHOOSE x \in S : \A y \in S : x <= y

MinOr0(S) == IF S = {} THEN 0 ELSE Min(S)

StartsWith(s, p) == Len(s) >= Len(p) /\ SubSeq(s, 1, Len(p)) = p

EndsWith(s, p) == Len(s) >= Len(p) /\ SubSeq(s, Len(s) - Len(p) + 1, Len(s)) = p

\* Positions at which p occurs in s.
Occurrences(s, p) ==
  {i \in 1..(Len(s) - Len(p) + 1) : SubSeq(s, i, i + Len(p) - 1) = p}

\* String.prototype.replace(pattern, replacement) with a string pattern: only
\* the first occurrence (at i, 0 if none) is replaced; the empty pattern
\* matches at the start.
ReplaceAt(s, p, r, i) ==
  IF p = <<>> THEN r \o s
  ELSE IF i = 0 THEN s
  ELSE SubSeq(s, 1, i - 1) \o r \o SubSeq(s, i + Len(p), Len(s))

Replace(s, p, r) == ReplaceAt(s, p, r, MinOr0(Occurrences(s, p)))

MaxOr0(S) == IF S = {} THEN 0 ELSE Max(S)

\* path.parse (posix), last stage: b..e is the base name, sl the "/" before
\* it (0 if none), d the last "." in it (0 if none).  There is no extension
\* when there is no dot, when the dot starts the base name, or when the base
\* name is "..".
ParseParts(path, start, e, sl, b, d) ==
  [ dir  |-> IF sl > 0 THEN SubSeq(path, 1, sl - 1)
             ELSE IF start = 2 THEN <<"/">> ELSE <<>>,
    base |-> SubSeq(path, b, e),
    name |-> IF d = 0 \/ d = b \/ (path[b] = "." /\ d = e /\ d = sl + 2)
             THEN SubSeq(path, b, e) ELSE SubSeq(path, b, d - 1),
    ext  |-> IF d = 0 \/ d = b \/ (path[b] = "." /\ d = e /\ d = sl + 2)
             THEN <<>> ELSE SubSeq(path, d, e) ]

ParseBase(path, start, e, sl, b) ==
  ParseParts(path, start, e, sl, b, MaxOr0({i \in b..e : path[i] = "."}))

ParseDir(path, start, e, sl) ==
  ParseBase(path, start, e, sl, IF sl > 0 THEN sl + 1 ELSE start)

ParseEnd(path, start, e) ==
  ParseDir(path, start, e, MaxOr0({i \in start..e : path[i] = "/"}))

ParseFrom(path, start) ==
  ParseEnd(path, start, MaxOr0({i \in start..Len(path) : path[i] # "/"}))

\* path.parse (posix): { dir, base, name, ext }; trailing "/" are dropped and
\* the scan stops before the root "/" of an absolute path.
Parse(path) == ParseFrom(path, IF path # <<>> /\ path[1] = "/" THEN 2 ELSE 1)

\* ------------------------------------------------------- program text
Slash == <<"/">>

ExtGlb == <<".", "g", "l", "b">>

ExtGltf == <<".", "g", "l", "t", "f">>

ExtUsdz == <<".", "u", "s", "d", "z">>

ModelsPrefix == <<"m", "o", "d", "e", "l", "s", "/">>

\* FILES_FOLDER of the local-disk server.
FilesFolderLocal ==
  <<"/", "u", "s", "r", "/", "a", "p", "p", "/", "g", "l", "t", "f", "2",
    "u", "s", "d", "z", "/", "f", "i", "l", "e", "s">>

\* FILES_FOLDER of the bucket servers (the default, which the image also sets).
FilesFolderCloud ==
  <<"/", "t", "m", "p", "/", "g", "l", "t", "f", "2", "u", "s", "d", "z",
    "/", "f", "i", "l", "e", "s">>

\* The servers' working directory (WORKDIR ${APP_DIR}/server), as segments.
Cwd ==
  << <<"u", "s", "r">>, <<"a", "p", "p">>,
     <<"g", "l", "t", "f", "2", "u", "s", "d", "z">>,
     <<"s", "e", "r", "v", "e", "r">> >>

\* ---------------------------------------------------- the file system
\* The segments of a path string, between its "/" separators.
RECURSIVE Segments(_)
SegmentsAt(s, i) ==
  IF i = 0 THEN <<s>>
  ELSE <<SubSeq(s, 1, i - 1)>> \o Segments(SubSeq(s, i + 1, Len(s)))

Segments(s) == SegmentsAt(s, MinOr0({i \in 1..Len(s) : s[i] = "/"}))

\* Resolution of "", "." and ".." segments on top of an absolute base.
RECURSIVE Walk(_, _)
Walk(acc, segs) ==
  IF segs = <<>> THEN acc
  ELSE IF Head(segs) = <<>> \/ Head(segs) = <<".">> THEN Walk(acc, Tail(segs))
  ELSE IF Head(segs) = <<".", ".">>
  THEN Walk(SubSeq(acc, 1, Len(acc) - 1), Tail(segs))
  ELSE Walk(Append(acc, Head(segs)), Tail(segs))

\* The file a path string names: its resolved absolute segments.  A relative
\* path is taken from the working directory.
Resolve(p) ==
  IF p # <<>> /\ p[1] = "/" THEN Walk(<<>>, Segments(p)) ELSE Walk(Cwd, Segments(p))

\* Ends of the directory prefixes the system walks through to reach p.
Cuts(p) == {k \in 1..(Len(p) - 1) : p[k + 1] = "/" /\ p[k] # "/"}

\* open(p) for writing succeeds iff every directory on the way exists.
CanOpen(ds, p) == \A k \in Cuts(p) : Resolve(SubSeq(p, 1, k)) \in ds

\* mkdir -p: every prefix of the path is created in turn.
MkdirP(ds, p) ==
  ds \cup {Resolve(SubSeq(p, 1, k)) : k \in Cuts(p) \cup {Len(p)}}

\* All ancestors of a resolved path, itself included.
Ancestors(r) == {SubSeq(r, 1, k) : k \in 0..Len(r)}

IsUnder(r, d) == Len(r) >= Len(d) /\ SubSeq(r, 1, Len(d)) = d

\* rm -r: the directory and everything below it.
RmTree(S, p) == {r \in S : ~IsUnder(r, Resolve(p))}

\* -------------------------------------------------------------- state
VARIABLES
  variant,    \* which server runs: "local", "cloud" or "legacy"
  gcsBucket,  \* GCS_BUCKET is set in the environment
  storage,    \* the storage client was constructed (storage !== null)
  up,         \* the server process is alive
  nreq,       \* requests received so far
  nextId,     \* crypto.randomUUID() values drawn so far
  req,        \* per request: its input, handler position and response
  dirs,       \* directories on local disk (resolved paths)
  files,      \* files on local disk (resolved paths)
  bucket      \* object names uploaded to the bucket

vars == <<variant, gcsBucket, storage, up, nreq, nextId, req, dirs, files, bucket>>

Reqs == 1..MaxReq

\* FILES_FOLDER of the running server.
FILES_FOLDER == IF variant = "local" THEN FilesFolderLocal ELSE FilesFolderCloud

\* crypto.randomUUID(): a value never returned before.
RandomUUID(k) == <<"#" \o ToString(k)>>

Stem == <<"c", "h", "a", "i", "r">>

Up2 == <<".", ".", "/", ".", ".", "/", "s", "/">>

\* Names of uploaded files (multipart field `file`, local server).
LocalNames ==
  { Stem \o ExtGlb, Stem \o ExtGltf, Stem \o <<".", "t", "x", "t">>,
    Stem \o ExtGlb \o ExtGlb, <<".", ".", "/", "s", "/">> \o Stem \o ExtGlb,
    Up2 \o Stem \o ExtGlb }

\* Values of the multipart field `filename` (bucket servers).
CloudNames ==
  { <<>>, Stem \o ExtGlb, ModelsPrefix \o Stem \o ExtGlb,
    Stem \o <<".", "t", "x", "t">>, Up2 \o Stem, Up2 \o Stem \o ExtUsdz }

Methods == {"GET", "POST", "OPTIONS"}

Routes == {"/healthz", "/api/convert", "/api/download", "/", "/other"}

\* A request not yet received.
Blank ==
  [ pc |-> "new", method |-> "", route |-> "", kind |-> "", value |-> <<>>,
    qid |-> <<>>, id |-> <<>>, dir |-> <<>>, status |-> 0, body |-> "none",
    msg |-> "", name |-> <<>>, objectPath |-> <<>>, url |-> <<>>,
    origName |-> <<>>, objectDir |-> <<>>, localObjectDir |-> <<>>,
    destPath |-> <<>>, spawnIn |-> <<>>, spawnOut |-> <<>>,
    inputComplete |-> FALSE, produced |-> FALSE, outExists |-> FALSE,
    outputPath |-> <<>>,
    destObject |-> <<>>, served |-> <<>>, steps |-> <<>>, failed |-> "",
    ret |-> <<>>, wrote |-> {}, removed |-> FALSE ]

Init ==
  /\ variant \in {"local", "cloud", "legacy"}
  /\ gcsBucket \in BOOLEAN
  /\ storage \in BOOLEAN
  /\ storage => gcsBucket
  /\ variant = "local" => ~gcsBucket
  /\ up = TRUE
  /\ nreq = 0
  /\ nextId = 0
  /\ req = [r \in Reqs |-> Blank]
  /\ dirs = Ancestors(Resolve(FILES_FOLDER)) \cup Ancestors(Cwd)
  /\ files = {}
  /\ bucket = {}

\* ---------------------------------------------------------- responses
\* The handler returns: with a directory to remove the finally block runs
\* first (cloud server), otherwise the response goes out.
Return(q, st, body) ==
  [q EXCEPT !.status = st, !.body = body,
            !.steps = Append(q.steps, "respond"),
            !.pc = IF variant = "cloud" /\ q.dir # <<>> THEN "cleanup" ELSE "done"]

\* Response.json({ message }, { status }).
Message(q, st, m) == [Return(q, st, "message") EXCEPT !.msg = m]

\* catch (err): Response.json({ message: String(err) }, { status: 500 }).
Caught(q, step, m) == [Message(q, 500, m) EXCEPT !.failed = step]

AddIf(S, b, x) == IF b THEN S \cup {x} ELSE S

\* ------------------------------------------------------- convertFile
\* `!outputFile.exists()`: Bun's BunFile.exists() returns a Promise (the
\* download handler awaits the same call); convertFile does not await it, and
\* the negation of a Promise object is false whatever the file system holds.
OutputMissing(fs, output) == FALSE

\* The converter's output argument and the name convertFile returns, from the
\* parts of the input path: the extension is replaced by String.replace on
\* the whole path.
ConvertNames(filepath, parts) ==
  [output |-> Replace(filepath, parts.ext, ExtUsdz), name |-> parts.name \o ExtUsdz]

\* convertFile(filepath): what it asks the converter to write and returns.
ConvertFile(filepath) == ConvertNames(filepath, Parse(filepath))

\* usd_from_gltf input output, run to its exit by Bun.spawnSync: it writes the
\* output file or exits without one; it can write only with an input file to
\* read and an output path it can open.
ConverterMayWrite(fs, ds, input, output) ==
  Resolve(input) \in fs /\ CanOpen(ds, output)

\* The request after convertFile(filepath) asked for c: the converter wrote
\* its output (made) or not and left the file system fs.
Converted(q, filepath, c, made, whole, fs) ==
  IF OutputMissing(fs, c.output)
  THEN Caught([q EXCEPT !.spawnIn = filepath, !.spawnOut = c.output,
                        !.steps = Append(q.steps, "convert")],
              "convert", "Error: Failed to create USDZ file")
  ELSE [q EXCEPT !.spawnIn = filepath, !.spawnOut = c.output,
                 !.produced = made, !.inputComplete = whole,
                 !.outExists = Resolve(c.output) \in fs,
                 !.steps = Append(q.steps, "convert"),
                 !.wrote = AddIf(q.wrote, made, Resolve(c.output)),
                 !.ret = c.name]

\* ------------------------------------------------------ request entry
\* A check of the bucket name alone, which lets through a server whose
\* storage client failed to initialise.
StorageUnconfiguredBucketOnly == ~gcsBucket

\* Storage is not usable: `!storage || !GCS_BUCKET`.
StorageUnconfigured == ~storage \/ ~gcsBucket

\* The inputs a request to /api/convert may carry: the form data does not
\* parse ("malformed"), the field is absent ("nofield"), it is a string
\* ("text") or it is a file ("file").
Inputs ==
  IF variant = "local"
  THEN {[kind |-> k, qid |-> <<>>, value |-> <<>>] : k \in {"malformed", "nofield", "text"}}
         \cup {[kind |-> "file", qid |-> <<>>, value |-> v] : v \in LocalNames}
  ELSE {[kind |-> k, qid |-> <<>>, value |-> <<>>] : k \in {"malformed", "nofield", "file"}}
         \cup {[kind |-> "text", qid |-> <<>>, value |-> v] : v \in CloudNames}

\* Query parameters of /api/download: none, the id and name some earlier
\* success response of /api/convert gave, or id=.. and name=s/chair.glb.
Queries ==
  {[kind |-> "noparams", qid |-> <<>>, value |-> <<>>],
   [kind |-> "params", qid |-> <<".", ".">>,
    value |-> <<"s", "/">> \o Stem \o ExtGlb]}
    \cup {[kind |-> "params", qid |-> req[j].id, value |-> req[j].name] :
            j \in {i \in Reqs : req[i].pc = "done" /\ req[i].body = "idname"}}

\* What a request carries, by its method and route: only a POST has a body,
\* and req.formData() rejects on a request without one.
Carried(m, rt) ==
  IF rt = "/api/convert"
  THEN IF m = "POST" THEN Inputs
       ELSE {[kind |-> "malformed", qid |-> <<>>, value |-> <<>>]}
  ELSE IF rt = "/api/download" /\ variant = "local" THEN Queries
  ELSE {[kind |-> "", qid |-> <<>>, value |-> <<>>]}

\* fetch(req) of the cloud server up to its first await.
EnterCloud(q) ==
  IF q.method = "OPTIONS" THEN Return(q, 204, "empty")
  ELSE IF q.route = "/healthz" THEN Return(q, 200, "text")
  ELSE IF q.route = "/api/convert"
       THEN IF q.method # "POST"
            THEN Message(q, 405, "Method not allowed")
            ELSE [q EXCEPT !.pc = "form"]
  ELSE Return(q, 404, "text")

\* fetch(req) of the legacy bucket server up to its first await.
EnterLegacy(q) ==
  IF q.route = "/healthz" THEN Return(q, 200, "text")
  ELSE IF q.route = "/api/convert" THEN [q EXCEPT !.pc = "form"]
  ELSE Return(q, 404, "text")

\* fetch(req) of the local server up to its first await; a path that is no
\* endpoint is served from the frontend bundle when the file exists there.
EnterLocal(q, inBundle) ==
  IF q.route = "/api/convert" THEN [q EXCEPT !.pc = "form"]
  ELSE IF q.route = "/api/download"
       THEN IF q.kind = "noparams" THEN Return(q, 400, "text")
            ELSE [q EXCEPT !.pc = "exists"]
  ELSE IF q.route = "/" \/ inBundle THEN Return(q, 200, "file")
  ELSE Return(q, 404, "text")

Enter(q, inBundle) ==
  IF variant = "cloud" THEN EnterCloud(q)
  ELSE IF variant = "legacy" THEN EnterLegacy(q)
  ELSE EnterLocal(q, inBundle)

\* A request arrives and its handler runs to its first await.
Arrive(r) ==
  /\ up
  /\ r = nreq + 1
  /\ nreq' = r
  /\ \E m \in Methods, rt \in Routes, inBundle \in BOOLEAN :
       \E i \in Carried(m, rt) :
         /\ inBundle => (variant = "local" /\ rt = "/other")
         /\ req' = [req EXCEPT ![r] =
              Enter([Blank EXCEPT !.method = m, !.route = rt, !.kind = i.kind,
                                  !.value = i.value, !.qid = i.qid],
                    inBundle)]
  /\ UNCHANGED <<variant, gcsBucket, storage, up, nextId, dirs, files, bucket>>

\* ------------------------------------------------------- local server
\* The upload passes the check of lines 47-51: a File whose name ends in
\* .gltf or .glb.
Allowed(q) ==
  q.kind = "file" /\ (EndsWith(q.value, ExtGltf) \/ EndsWith(q.value, ExtGlb))

\* The request once the upload is accepted: the id is drawn and Bun.write of
\* FILES_FOLDER/id/file.name is started.
Accepted(q, id) ==
  [q EXCEPT !.id = id,
            !.destPath = FILES_FOLDER \o Slash \o id \o Slash \o q.value,
            !.steps = Append(q.steps, "write"),
            !.pc = "write"]

\* /api/convert after `await req.formData()`: logger.info(file.name) throws on
\* a missing field, the validation throws on anything but a glb/gltf File,
\* and every throw is answered 500 by the catch.
FormLocalOn(r, q) ==
  IF q.kind = "malformed"
  THEN /\ req' = [req EXCEPT ![r] = Caught(q, "form", "TypeError: formData")]
       /\ UNCHANGED nextId
  ELSE IF q.kind = "nofield"
  THEN /\ req' = [req EXCEPT ![r] = Caught(q, "validate", "TypeError: file.name")]
       /\ UNCHANGED nextId
  ELSE IF ~Allowed(q)
  THEN /\ req' = [req EXCEPT ![r] =
            Caught(q, "validate", "Error: You must upload a glb/gltf file.")]
       /\ UNCHANGED nextId
  ELSE /\ nextId' = nextId + 1
       /\ req' = [req EXCEPT ![r] = Accepted(q, RandomUUID(nextId + 1))]

FormLocal(r) ==
  /\ up
  /\ variant = "local"
  /\ req[r].pc = "form"
  /\ FormLocalOn(r, req[r])
  /\ UNCHANGED <<variant, gcsBucket, storage, up, nreq, dirs, files, bucket>>

\* Response.json({ id, name }) unless convertFile threw.
RespondLocal(q) ==
  IF q.failed # "" THEN q ELSE Return([q EXCEPT !.name = q.ret], 200, "idname")

\* Bun.write left directories ds and files fs (the upload included); then
\* convertFile(f) runs, asking for c.
WriteLocalOn(r, q, f, c, ds, fs, made) ==
  /\ made => ConverterMayWrite(fs, ds, f, c.output)
  /\ dirs' = ds
  /\ files' = AddIf(fs, made, Resolve(c.output))
  /\ req' = [req EXCEPT ![r] =
       RespondLocal(Converted([q EXCEPT !.wrote = {Resolve(f)}], f, c, made, TRUE,
                              AddIf(fs, made, Resolve(c.output))))]

\* `await Bun.write(filename, file)` settles: it rejects (500), or the upload
\* is on disk, its parent directories created, and convertFile runs and the
\* response goes out.
WriteLocal(r) ==
  /\ up
  /\ variant = "local"
  /\ req[r].pc = "write"
  /\ \E ok \in BOOLEAN, made \in BOOLEAN :
       IF ok
       THEN WriteLocalOn(r, req[r], req[r].destPath, ConvertFile(req[r].destPath),
                         MkdirP(dirs, Parse(req[r].destPath).dir),
                         files \cup {Resolve(req[r].destPath)}, made)
       ELSE /\ ~made
            /\ req' = [req EXCEPT ![r] = Caught(req[r], "write", "Error: write")]
            /\ UNCHANGED <<dirs, files>>
  /\ UNCHANGED <<variant, gcsBucket, storage, up, nreq, nextId, bucket>>

\* The file /api/download looks for: FILES_FOLDER/id/name.
DownloadPath(q) == FILES_FOLDER \o Slash \o q.qid \o Slash \o q.value

\* new Response(file) if the file exists, else 500 { message }.
ExistsLocalOn(q, f) ==
  IF f \in files THEN Return([q EXCEPT !.served = f], 200, "file")
  ELSE Caught(q, "download", "Failed to download the file.")

\* /api/download after `await file.exists()`.
ExistsLocal(r) ==
  /\ up
  /\ variant = "local"
  /\ req[r].pc = "exists"
  /\ req' = [req EXCEPT ![r] = ExistsLocalOn(req[r], Resolve(DownloadPath(req[r])))]
  /\ UNCHANGED <<variant, gcsBucket, storage, up, nreq, nextId, dirs, files, bucket>>

\* ----------------------------------------------------- bucket servers
\* `filenameField.startsWith("models/") ? filenameField : "models/" + ...`.
OriginalName(f) == IF StartsWith(f, ModelsPrefix) THEN f ELSE ModelsPrefix \o f

\* downloadFromGCS is called: it throws without a storage client, else the
\* write stream on destPath is created and the read stream piped into it.
StartDownload(q, destPath) ==
  IF ~storage THEN Caught(q, "download", "Error: GCS client not initialized")
  ELSE [q EXCEPT !.destPath = destPath,
                 !.steps = Append(q.steps, "download"),
                 !.pc = "download"]

\* uploadToGCS is called.
StartUpload(q, plan) ==
  IF ~storage THEN Caught(q, "upload", "Error: GCS client not initialized")
  ELSE [q EXCEPT !.outputPath = plan.outputPath,
                 !.destObject = plan.destObjectName,
                 !.steps = Append(q.steps, "upload"),
                 !.pc = "upload"]

\* getSignedUrl is called.
StartSign(q) ==
  IF ~storage THEN Caught(q, "sign", "Error: GCS client not initialized")
  ELSE [q EXCEPT !.steps = Append(q.steps, "sign"), !.pc = "sign"]

\* The request once the field and the configuration are accepted: the id is
\* drawn and mkdir of FILES_FOLDER/id is started.
Admitted(q, id) ==
  [q EXCEPT !.origName = OriginalName(q.value),
            !.id = id,
            !.dir = FILES_FOLDER \o Slash \o id,
            !.steps = Append(q.steps, "mkdir"),
            !.pc = "mkdir1"]

\* /api/convert after `await req.formData()`: the field, then the storage
\* configuration, are checked.
FormCloudOn(r, q) ==
  IF q.kind = "malformed"
  THEN /\ req' = [req EXCEPT ![r] = Caught(q, "form", "TypeError: formData")]
       /\ UNCHANGED nextId
  ELSE IF q.kind # "text" \/ q.value = <<>>
  THEN /\ req' = [req EXCEPT ![r] = Message(q, 400,
            "You must provide a 'filename' form field pointing to the object in GCS")]
       /\ UNCHANGED nextId
  ELSE IF StorageUnconfigured
  THEN /\ req' = [req EXCEPT ![r] =
            Message(q, 500, "GCS is not configured on this server")]
       /\ UNCHANGED nextId
  ELSE /\ nextId' = nextId + 1
       /\ req' = [req EXCEPT ![r] = Admitted(q, RandomUUID(nextId + 1))]

FormCloud(r) ==
  /\ up
  /\ variant \in {"cloud", "legacy"}
  /\ req[r].pc = "form"
  /\ FormCloudOn(r, req[r])
  /\ UNCHANGED <<variant, gcsBucket, storage, up, nreq, dirs, files, bucket>>

\* After the request's directory is made: the cloud server makes the object's
\* directory below it, the legacy server downloads to dir/originalName.
AfterMkdir(q, parsed) ==
  IF variant = "cloud"
  THEN [q EXCEPT !.objectDir = parsed.dir,
                 !.localObjectDir = q.dir \o Slash \o parsed.dir,
                 !.pc = "mkdir2"]
  ELSE StartDownload(q, q.dir \o Slash \o q.origName)

\* `await mkdir(dir, { recursive: true })` settles.
Mkdir1(r) ==
  /\ up
  /\ req[r].pc = "mkdir1"
  /\ \E ok \in BOOLEAN :
       /\ dirs' = IF ok THEN MkdirP(dirs, req[r].dir) ELSE dirs
       /\ req' = [req EXCEPT ![r] =
            IF ok THEN AfterMkdir(req[r], Parse(req[r].origName))
            ELSE Caught(req[r], "mkdir", "Error: mkdir")]
  /\ UNCHANGED <<variant, gcsBucket, storage, up, nreq, nextId, files, bucket>>

\* `await mkdir(localObjectDir, { recursive: true })` settles; then the
\* download to localObjectDir/objectBase starts (cloud server).
Mkdir2(r) ==
  /\ up
  /\ variant = "cloud"
  /\ req[r].pc = "mkdir2"
  /\ \E ok \in BOOLEAN :
       /\ dirs' = IF ok THEN MkdirP(dirs, req[r].localObjectDir) ELSE dirs
       /\ req' = [req EXCEPT ![r] =
            IF ok
            THEN StartDownload(req[r],
                   req[r].localObjectDir \o Slash \o Parse(req[r].origName).base)
            ELSE Caught(req[r], "mkdir", "Error: mkdir")]
  /\ UNCHANGED <<variant, gcsBucket, storage, up, nreq, nextId, files, bucket>>

\* The local file and the object name the converted file is uploaded from
\* and to: the cloud server builds both from the object's own name, the
\* legacy server from the name convertFile returned.
UploadPlan(q, convertedName) ==
  IF variant = "cloud"
  THEN [outputPath |-> q.localObjectDir \o Slash \o convertedName,
        destObjectName |-> q.objectDir \o Slash \o convertedName]
  ELSE [outputPath |-> q.dir \o Slash \o q.ret,
        destObjectName |-> ModelsPrefix \o q.id \o Slash \o q.ret]

\* After convertFile: the upload is started unless it threw.
AfterConvert(q) ==
  IF q.failed # "" THEN q
  ELSE StartUpload(q, UploadPlan(q, Parse(q.origName).name \o ExtUsdz))

\* The download settles on the request q (its write already recorded), with
\* the local files fs it leaves.
DownloadOn(r, q, c, open, fs, outcome, whole, made) ==
  /\ outcome = "crash" => ~open
  /\ whole => (open /\ outcome = "end")
  /\ made => (outcome = "end" /\ ConverterMayWrite(fs, dirs, q.destPath, c.output))
  /\ IF outcome = "crash"
     THEN /\ up' = FALSE
          /\ UNCHANGED <<req, files>>
     ELSE IF outcome = "error"
     THEN /\ req' = [req EXCEPT ![r] = Caught(q, "download", "Error: read stream")]
          /\ files' = fs
          /\ UNCHANGED up
     ELSE /\ files' = AddIf(fs, made, Resolve(c.output))
          /\ req' = [req EXCEPT ![r] =
               AfterConvert(Converted(q, q.destPath, c, made, whole,
                                      AddIf(fs, made, Resolve(c.output))))]
          /\ UNCHANGED up

\* The write stream opened destPath (open) or could not.
DownloadTo(r, q, f, open, outcome, whole, made) ==
  DownloadOn(r, [q EXCEPT !.wrote = AddIf({}, open, f)], ConvertFile(q.destPath),
             open, AddIf(files, open, f), outcome, whole, made)

\* `await downloadFromGCS(...)` settles.  The promise resolves on the read
\* stream's "end" and rejects on its "error"; the write stream is not waited
\* for, so at "end" the local file may not hold all of the object yet (whole),
\* and a write stream that cannot open its file emits an "error" nobody
\* listens to, which may end the process.  On "end" convertFile runs at once
\* (no await in between) and the upload is started.
Download(r) ==
  /\ req[r].pc = "download"
  /\ up
  /\ \E outcome \in {"end", "error", "crash"}, whole \in BOOLEAN, made \in BOOLEAN :
       DownloadTo(r, req[r], Resolve(req[r].destPath),
                  CanOpen(dirs, req[r].destPath), outcome, whole, made)
  /\ UNCHANGED <<variant, gcsBucket, storage, nreq, nextId, dirs, bucket>>

\* `await uploadToGCS(...)` settles: bucket.upload needs the local file and
\* may fail for reasons of its own; on success the URL signing is started.
UploadOn(r, q, ok) ==
  /\ ok => Resolve(q.outputPath) \in files
  /\ bucket' = AddIf(bucket, ok, q.destObject)
  /\ req' = [req EXCEPT ![r] =
       IF ok THEN StartSign(q) ELSE Caught(q, "upload", "Error: upload")]

Upload(r) ==
  /\ up
  /\ req[r].pc = "upload"
  /\ \E ok \in BOOLEAN : UploadOn(r, req[r], ok)
  /\ UNCHANGED <<variant, gcsBucket, storage, up, nreq, nextId, dirs, files>>

\* Response.json({ id, name, uploadedUrl, objectPath }, { status: 200 }); the
\* legacy server's body has no objectPath.
Success(q) ==
  Return([q EXCEPT !.name = q.ret, !.url = q.destObject,
                   !.objectPath = IF variant = "cloud" THEN q.destObject ELSE <<>>],
         200, IF variant = "cloud" THEN "idnameurlpath" ELSE "idnameurl")

\* `await getSignedUrl(...)` settles.
Sign(r) ==
  /\ up
  /\ req[r].pc = "sign"
  /\ \E ok \in BOOLEAN :
       req' = [req EXCEPT ![r] =
         IF ok THEN Success(req[r]) ELSE Caught(req[r], "sign", "Error: getSignedUrl")]
  /\ UNCHANGED <<variant, gcsBucket, storage, up, nreq, nextId, dirs, files, bucket>>

\* finally { if (dir) await rm(dir, { recursive: true, force: true }) }: the
\* directory is removed, or rm fails and the failure is only logged; then the
\* response goes out.
Cleanup(r) ==
  /\ up
  /\ req[r].pc = "cleanup"
  /\ \E ok \in BOOLEAN :
       /\ dirs' = IF ok THEN RmTree(dirs, req[r].dir) ELSE dirs
       /\ files' = IF ok THEN RmTree(files, req[r].dir) ELSE files
       /\ req' = [req EXCEPT ![r] =
            [req[r] EXCEPT !.removed = ok,
                           !.steps = Append(req[r].steps, "cleanup"),
                           !.pc = "done"]]
  /\ UNCHANGED <<variant, gcsBucket, storage, up, nreq, nextId, bucket>>

Next ==
  \E r \in Reqs :
    \/ Arrive(r)
    \/ FormLocal(r)
    \/ WriteLocal(r)
    \/ ExistsLocal(r)
    \/ FormCloud(r)
    \/ Mkdir1(r)
    \/ Mkdir2(r)
    \/ Download(r)
    \/ Upload(r)
    \/ Sign(r)
    \/ Cleanup(r)

Spec == Init /\ [][Next]_vars

\* -------------------------------------------------------------- claims
Handled(r) == req[r].pc = "done"

IsConvert(r) == req[r].route = "/api/convert"

SuccessBodies == {"idname", "idnameurl", "idnameurlpath"}

BucketServer == variant \in {"cloud", "legacy"}

Ran(r, step) == \E i \in 1..Len(req[r].steps) : req[r].steps[i] = step

\* C1: when the converter exits and no file is at the path it was asked to
\* write, the /api/convert handler answers an error with a message and never
\* a success body.
C1_NoSuccessWithoutOutput ==
  \A r \in Reqs :
    (IsConvert(r) /\ Ran(r, "convert") /\ ~req[r].outExists)
      => /\ req[r].body \notin SuccessBodies
         /\ Ran(r, "respond") => (req[r].body = "message" /\ req[r].status >= 400)

\* The request's file is missing or its name has no allowed extension.
InvalidFile(r) ==
  IF variant = "local"
  THEN req[r].kind \in {"nofield", "text"}
         \/ (req[r].kind = "file" /\ ~EndsWith(req[r].value, ExtGltf)
                                  /\ ~EndsWith(req[r].value, ExtGlb))
  ELSE req[r].kind \in {"nofield", "file"}
         \/ (req[r].kind = "text" /\ ~EndsWith(req[r].value, ExtGltf)
                                  /\ ~EndsWith(req[r].value, ExtGlb))

\* C2: a POST /api/convert whose file is missing or whose name does not
\* end in .gltf or .glb is answered with a 400-class status, and the
\* converter is never run for it.
C2_InvalidFileIs400AndNoConverter ==
  \A r \in Reqs :
    (IsConvert(r) /\ req[r].method = "POST" /\ InvalidFile(r))
      => /\ ~Ran(r, "convert")
         /\ Handled(r) => req[r].status \in 400..499

\* C3: bucket servers: once the handler of a /api/convert request has
\* finished, the directory FILES_FOLDER/<id> made for it is gone.
C3_TempDirGoneWhenHandled ==
  \A r \in Reqs :
    (BucketServer /\ IsConvert(r) /\ Handled(r) /\ req[r].dir # <<>>)
      => Resolve(req[r].dir) \notin dirs

\* C4: the requests that place files have pairwise distinct identifiers and
\* pairwise disjoint sets of local files written (input and converter
\* output).
C4_DistinctIdsDisjointFiles ==
  \A r, t \in Reqs :
    (r # t /\ req[r].id # <<>> /\ req[t].id # <<>>)
      => /\ req[r].id # req[t].id
         /\ req[r].wrote \cap req[t].wrote = {}

\* A POST /api/convert with a non-empty string `filename` on a bucket server
\* whose storage is not configured, past its form parsing.
UnconfiguredPost(r) ==
  /\ BucketServer
  /\ ~storage \/ ~gcsBucket
  /\ IsConvert(r)
  /\ req[r].method = "POST"
  /\ req[r].kind = "text"
  /\ req[r].value # <<>>
  /\ req[r].pc # "form"

\* C5: bucket servers: a POST /api/convert with a non-empty `filename` while
\* storage is unconfigured gets 500 { message: "GCS is not configured on this
\* server" }; no directory is made, no storage operation is tried and the
\* converter is not run for it.
C5_UnconfiguredFailsFast ==
  \A r \in Reqs :
    UnconfiguredPost(r)
      => /\ Handled(r)
         /\ req[r].status = 500
         /\ req[r].body = "message"
         /\ req[r].msg = "GCS is not configured on this server"
         /\ req[r].steps = <<"respond">>
         /\ req[r].id = <<>> /\ req[r].dir = <<>>
         /\ req[r].wrote = {}
         /\ dirs = Ancestors(Resolve(FILES_FOLDER)) \cup Ancestors(Cwd)
         /\ files = {}
         /\ bucket = {}

\* C5 witness: the spec's example, filename=models/chair.glb, was answered by
\* a server whose bucket is named but whose client failed to initialise.
C5_Witness ==
  \E r \in Reqs :
    /\ UnconfiguredPost(r)
    /\ gcsBucket
    /\ req[r].value = ModelsPrefix \o Stem \o ExtGlb
    /\ req[r].status = 500

\* C6: local server: after /api/convert answered { id, name }, a later
\* GET /api/download with that id and name streams the converted file, and
\* the download endpoint answers 500 only when FILES_FOLDER/<id>/<name> is no
\* file.
C6_DownloadAfterSuccessStreams ==
  \A d \in Reqs :
    (variant = "local" /\ req[d].route = "/api/download" /\ Handled(d)
       /\ req[d].kind = "params")
      => /\ \A c \in Reqs :
              (IsConvert(c) /\ Handled(c) /\ req[c].body = "idname"
                 /\ req[c].id = req[d].qid /\ req[c].name = req[d].value)
                => /\ req[d].status = 200
                   /\ req[d].served = Resolve(req[c].spawnOut)
         /\ req[d].status = 500 => Resolve(DownloadPath(req[d])) \notin files

\* C7: bucket servers, requests other than OPTIONS: non-POST /api/convert
\* gets 405; POST without a non-empty string `filename` gets 400; a failed
\* download, conversion, upload or signing gets 500; each with a message
\* body; 200 { id, name, uploadedUrl, objectPath } only after all four steps
\* succeeded; any path but /healthz and /api/convert gets 404.
C7_StatusMapping ==
  \A r \in Reqs :
    (BucketServer /\ Handled(r) /\ req[r].method # "OPTIONS")
      => /\ (IsConvert(r) /\ req[r].method # "POST")
              => (req[r].status = 405 /\ req[r].body = "message")
         /\ (IsConvert(r) /\ req[r].method = "POST"
               /\ ~(req[r].kind = "text" /\ req[r].value # <<>>))
              => (req[r].status = 400 /\ req[r].body = "message")
         /\ req[r].failed \in {"download", "convert", "upload", "sign"}
              => (req[r].status = 500 /\ req[r].body = "message")
         /\ (IsConvert(r) /\ req[r].status = 200)
              => /\ req[r].body = "idnameurlpath"
                 /\ req[r].failed = ""
                 /\ \A st \in {"download", "convert", "upload", "sign"} : Ran(r, st)
         /\ req[r].route \notin {"/healthz", "/api/convert"} => req[r].status = 404

\* C8: bucket servers: on success the converted file went to the object
\* <directory of the normalised input name>/<stem>.usdz, objectPath and the
\* signed URL name that object, and the local file uploaded is the one the
\* converter was asked to write.
C8_UploadBesideInput ==
  \A r \in Reqs :
    (BucketServer /\ IsConvert(r) /\ req[r].body \in SuccessBodies)
      => /\ req[r].origName = OriginalName(req[r].value)
         /\ req[r].destObject =
              Parse(req[r].origName).dir \o Slash \o Parse(req[r].origName).name \o ExtUsdz
         /\ req[r].destObject \in bucket
         /\ req[r].objectPath = req[r].destObject
         /\ req[r].url = req[r].destObject
         /\ Resolve(req[r].outputPath) = Resolve(req[r].spawnOut)

\* C9: convertFile asks the converter to write <directory of p>/<stem>.usdz,
\* the input path with only its final extension replaced, and returns
\* <stem>.usdz; the name in a success body ends in .usdz and is the base name
\* of that output file.
C9_OutputIsInputWithUsdzExtension ==
  \A r \in Reqs :
    req[r].spawnIn # <<>>
      => /\ req[r].spawnOut =
              Parse(req[r].spawnIn).dir \o Slash \o Parse(req[r].spawnIn).name \o ExtUsdz
         /\ req[r].ret = Parse(req[r].spawnIn).name \o ExtUsdz
         /\ req[r].body \in SuccessBodies
              => /\ EndsWith(req[r].name, ExtUsdz)
                 /\ req[r].name = Parse(req[r].spawnOut).base

\* The order of the steps of a /api/convert request on a bucket server.
StepOrder == <<"mkdir", "download", "convert", "upload", "sign", "respond", "cleanup">>

Position(step) == CHOOSE i \in 1..Len(StepOrder) : StepOrder[i] = step

\* C10: bucket servers, per /api/convert request: the steps run in the order
\* mkdir, download, convert, upload, sign, respond, each at most once; the
\* converter runs only once the local input file is completely written; no
\* step runs after a failed one.
C10_StepsOrderedOnceAfterCompletion ==
  \A r \in Reqs :
    (BucketServer /\ IsConvert(r))
      => /\ \A i, j \in 1..Len(req[r].steps) :
              i < j => Position(req[r].steps[i]) < Position(req[r].steps[j])
         /\ Ran(r, "convert") => (Ran(r, "download") /\ req[r].inputComplete)
         /\ Ran(r, "upload") => Ran(r, "convert")
         /\ Ran(r, "sign") => (Ran(r, "upload") /\ req[r].destObject \in bucket)
         /\ \A st \in {"mkdir", "download", "convert", "upload", "sign"} :
              req[r].failed = st
                => \A i \in 1..Len(req[r].steps) :
                     Position(req[r].steps[i]) <= Position(st)
                       \/ req[r].steps[i] \in {"respond", "cleanup"}

\* The directory of a request that was given an id: FILES_FOLDER/<id>.
OwnDir(r) == Resolve(FILES_FOLDER \o Slash \o req[r].id)

\* A path the handler built, once it has built it, resolves below directory d.
Inside(p, d) == p # <<>> => IsUnder(Resolve(p), d)

\* C11: whatever the client supplied, every local path a convert request
\* creates, writes or passes to the converter lies inside its own directory
\* FILES_FOLDER/<id>, and every path the download endpoint reads lies inside
\* FILES_FOLDER.
C11_PathsStayInside ==
  /\ \A r \in Reqs :
       (IsConvert(r) /\ req[r].id # <<>>)
         => /\ \A f \in req[r].wrote : IsUnder(f, OwnDir(r))
            /\ Inside(req[r].localObjectDir, OwnDir(r))
            /\ Inside(req[r].destPath, OwnDir(r))
            /\ Inside(req[r].spawnIn, OwnDir(r))
            /\ Inside(req[r].spawnOut, OwnDir(r))
  /\ \A d \in Reqs :
       (variant = "local" /\ req[d].route = "/api/download"
          /\ req[d].kind = "params" /\ Handled(d))
         => /\ IsUnder(Resolve(DownloadPath(req[d])), Resolve(FILES_FOLDER))
            /\ req[d].served # <<>>
                 => IsUnder(req[d].served, Resolve(FILES_FOLDER))

====
